---- MODULE Spec2Model ----
(***************************************************************************)
(* api_yamdb: the signup / token / user-management handlers, the review    *)
(* and comment viewsets with their permission class, and the User model.   *)
(*                                                                         *)
(* The database tables are the variables users, reviews and comments.      *)
(* A request handler is one action; the handlers that check a table and    *)
(* insert into it afterwards (signup, review creation) are two steps of a  *)
(* worker, so that two requests can both pass the check before either      *)
(* inserts.  resp is the response of the last completed step.              *)
(***************************************************************************)
EXTENDS Integers, FiniteSets, Sequences, TLC

VARIABLES
    users,        \* the User table: a sequence, users[pk] is the row with that pk
    outbox,       \* send_mail: the latest confirmation mail per user
    accepted,     \* history: the codes of outbox a token request has accepted
    changed,      \* history: the users whose row was changed after their latest mail
    now,          \* the clock the token generator reads
    emailInHash,  \* whether the installed token generator hashes the email
    job,          \* job[w]: the request worker w has validated and not yet saved
    reviews,      \* the Review table
    comments,     \* the Comment table
    resp          \* the response of the last completed step

mailVars == <<outbox, accepted, changed>>
clockVars == <<now, emailInHash>>
reviewVars == <<reviews, comments>>
vars == <<users, mailVars, clockVars, job, reviewVars, resp>>

(***************************************************************************)
(* Bounds of the model.                                                    *)
(***************************************************************************)
NumWorkers == 2      \* request workers running concurrently
MaxTime == 2         \* the clock runs 0..MaxTime
TimeoutTicks == 1    \* PASSWORD_RESET_TIMEOUT, in clock ticks
MaxPassword == 1     \* password hashes are 0..MaxPassword, each change a new one
MaxReviews == 3      \* primary keys of the Review table are 1..MaxReviews
MaxComments == 1     \* primary keys of the Comment table are 1..MaxComments
MaxYear == 8         \* timezone.now().year is 1..MaxYear

Workers == 1..NumWorkers

(***************************************************************************)
(* Values.                                                                 *)
(***************************************************************************)
ADMIN == "admin"
MODERATOR == "moderator"
USER == "user"
ROLE_CHOICES == {ADMIN, MODERATOR, USER}

Usernames == {"alice", "bob"}
ME == "me"
Emails == {"a@x.com", "b@x.com"}

Absent == "--"       \* a field the request body does not carry
Idle == [op |-> "idle"]
Anonymous == 0       \* request.user of an unauthenticated request

(***************************************************************************)
(* reviews/models.py: User                                                 *)
(***************************************************************************)
NewUser(username, email, role, bio) ==
    [username |-> username, email |-> email, role |-> role, bio |-> bio,
     is_staff |-> FALSE, password |-> 0]

SaveNeverStaff(u) == u
SaveClearsStaff(u) == [u EXCEPT !.is_staff = (u.role = ADMIN)]
\* User.save: an admin is made staff; is_staff is never cleared.
save(u) ==
    IF u.role = ADMIN THEN [u EXCEPT !.is_staff = TRUE] ELSE u

is_moderator(u) == u.role = MODERATOR

Pks == DOMAIN users

\* User.objects.filter(username=...) / filter(email=...)
ByUsername(name) == {p \in Pks : users[p].username = name}
UsernameExists(name) == ByUsername(name) # {}
EmailExists(email) == \E p \in Pks : users[p].email = email
PkOf(name) == CHOOSE p \in Pks : users[p].username = name

(***************************************************************************)
(* django.contrib.auth.tokens.default_token_generator, as the views and    *)
(* the token serializer call it.  A code is the hash of the user's pk,     *)
(* password, last_login (which no handler here changes), the timestamp     *)
(* and, from Django 3.1 on, the email; it is represented by the hashed     *)
(* values.  check_token recomputes the hash from the user's current row    *)
(* and rejects a code older than the timeout.                              *)
(***************************************************************************)
HashEmail(u) == IF emailInHash THEN u.email ELSE ""

make_token(pk) ==
    [uid |-> pk, pw |-> users[pk].password, em |-> HashEmail(users[pk]), ts |-> now]

ForgedCode == [uid |-> 0, pw |-> 0, em |-> "", ts |-> 0]

CheckIgnoresPassword(pk, code) ==
    /\ code.uid = pk
    /\ code.em = HashEmail(users[pk])
    /\ now - code.ts <= TimeoutTicks
CheckSingleUse(pk, code) ==
    /\ code.uid = pk
    /\ code.pw = users[pk].password
    /\ code.em = HashEmail(users[pk])
    /\ now - code.ts <= TimeoutTicks
    /\ code \notin accepted
check_token(pk, code) ==
    /\ code.uid = pk
    /\ code.pw = users[pk].password
    /\ code.em = HashEmail(users[pk])
    /\ now - code.ts <= TimeoutTicks

\* SignUpAPIView._send_msg: the code goes to the user's own address.
Mail(pk) == [to |-> users[pk].email, code |-> make_token(pk)]
SendTo(box, pk) == {m \in box : m.code.uid # pk} \cup {Mail(pk)}
Codes == {m.code : m \in outbox} \cup {ForgedCode}

\* History: the row of pk is written as row.
Touch(pk, row) == IF row # users[pk] THEN changed \cup {pk} ELSE changed

(***************************************************************************)
(* api/serializers.py: the user serializers' field validation.  Each is    *)
(* the set of fields in error; a request is valid when the set is empty.   *)
(***************************************************************************)
\* UserSerializer (pk = 0 on create): UniqueValidator and validate_username,
\* validate_email.  The UniqueValidator leaves the instance itself out.
UserEmailErrors(pk, data) ==
    IF data.email # Absent /\ EmailExists(data.email) THEN {"email"} ELSE {}

UserErrorsAllowMe(pk, data) ==
    (IF data.username # Absent /\ ByUsername(data.username) \ {pk} # {}
     THEN {"username"} ELSE {})
    \cup UserEmailErrors(pk, data)
UserSerializerErrors(pk, data) ==
    (IF data.username # Absent
        /\ (data.username = ME \/ ByUsername(data.username) \ {pk} # {})
     THEN {"username"} ELSE {})
    \cup UserEmailErrors(pk, data)

\* SignUpExistingUserSerializer, and PatchSelfDataSerializer which inherits
\* its validators: the username must exist, the email must exist; neither is
\* compared with the other's user.
ExistingUserErrors(data) ==
    (IF data.username # Absent
        /\ (data.username = ME \/ ~UsernameExists(data.username))
     THEN {"username"} ELSE {})
    \cup (IF data.email # Absent /\ ~EmailExists(data.email)
          THEN {"email"} ELSE {})

\* ModelSerializer.update: the fields the body carries are assigned.
Assign(u, data, fields) ==
    [f \in DOMAIN u |->
        IF f \in fields /\ f \in DOMAIN data /\ data[f] # Absent THEN data[f] ELSE u[f]]

(***************************************************************************)
(* api/views.py: SignUpAPIView                                             *)
(***************************************************************************)
\* post, up to is_valid(); for an existing username, the whole handler.
SignUpValidate(w, username, email) ==
    LET data == [username |-> username, email |-> email]
        req == [op |-> "signup", username |-> username, email |-> email]
    IN
    /\ job[w] = Idle
    /\ IF UsernameExists(username)
       THEN \* get_serializer_class: SignUpExistingUserSerializer
            IF ExistingUserErrors(data) = {}
            THEN /\ outbox' = SendTo(outbox, PkOf(username))
                 /\ accepted' = accepted \cap {m.code : m \in outbox'}
                 /\ changed' = changed \ {PkOf(username)}
                 /\ resp' = [req EXCEPT !.op = "signup_existing"]
                              @@ [status |-> "OK", mailed |-> TRUE]
                 /\ UNCHANGED <<users, job>>
            ELSE /\ resp' = [req EXCEPT !.op = "signup_existing"]
                              @@ [status |-> "ValidationError", mailed |-> FALSE]
                 /\ UNCHANGED <<users, mailVars, job>>
       ELSE \* SignUpNewUserSerializer
            IF UserSerializerErrors(0, data) = {}
            THEN /\ job' = [job EXCEPT ![w] = req]
                 /\ resp' = req @@ [status |-> "validated", mailed |-> FALSE]
                 /\ UNCHANGED <<users, mailVars>>
            ELSE /\ resp' = req @@ [status |-> "ValidationError", mailed |-> FALSE]
                 /\ UNCHANGED <<users, mailVars, job>>
    /\ UNCHANGED <<clockVars, reviewVars>>

SignUpSaveUnconstrained(w) ==
    /\ job[w].op = "signup"
    /\ job' = [job EXCEPT ![w] = Idle]
    /\ LET pk == Len(users) + 1
           row == save(NewUser(job[w].username, job[w].email, USER, ""))
       IN
       /\ users' = Append(users, row)
       /\ outbox' = outbox \cup
              {[to |-> row.email,
                code |-> [uid |-> pk, pw |-> row.password,
                          em |-> HashEmail(row), ts |-> now]]}
       /\ resp' = job[w] @@ [status |-> "OK", mailed |-> TRUE]
    /\ UNCHANGED <<accepted, changed, clockVars, reviewVars>>
\* post, from serializer.save() on: the insert, under the unique constraint
\* on username, then make_token and _send_msg.
SignUpSave(w) ==
    /\ job[w].op = "signup"
    /\ job' = [job EXCEPT ![w] = Idle]
    /\ IF UsernameExists(job[w].username)
       THEN /\ resp' = job[w] @@ [status |-> "IntegrityError", mailed |-> FALSE]
            /\ UNCHANGED <<users, outbox>>
       ELSE LET pk == Len(users) + 1
                row == save(NewUser(job[w].username, job[w].email, USER, ""))
            IN
            /\ users' = Append(users, row)
            /\ outbox' = outbox \cup
                   {[to |-> row.email,
                     code |-> [uid |-> pk, pw |-> row.password,
                               em |-> HashEmail(row), ts |-> now]]}
            /\ resp' = job[w] @@ [status |-> "OK", mailed |-> TRUE]
    /\ UNCHANGED <<accepted, changed, clockVars, reviewVars>>

(***************************************************************************)
(* api/serializers.py: CustomTokenObtainPairSerializer                     *)
(***************************************************************************)
ValidateFieldsCodeFirst(username, code) ==
    IF \A p \in Pks : ~check_token(p, code) THEN "ValidationError"
    ELSE IF ~UsernameExists(username) THEN "NotFound"
    ELSE IF ~check_token(PkOf(username), code) THEN "ValidationError"
    ELSE "OK"
_validate_fields(username, code) ==
    IF ~UsernameExists(username) THEN "NotFound"
    ELSE IF ~check_token(PkOf(username), code) THEN "ValidationError"
    ELSE "OK"

\* validate: the token is issued for user_obj when _validate_fields passes.
\* get_token writes nothing.
TokenRequest(username, code) ==
    LET status == _validate_fields(username, code)
    IN
    /\ resp' = [op |-> "token", username |-> username, code |-> code,
                status |-> status,
                token |-> IF status = "OK" THEN PkOf(username) ELSE 0,
                reuse |-> code \in accepted]
    /\ accepted' = IF status = "OK" THEN accepted \cup {code} ELSE accepted
    /\ UNCHANGED <<users, outbox, changed, clockVars, job, reviewVars>>

\* The clock advances.
Tick ==
    /\ now < MaxTime
    /\ now' = now + 1
    /\ resp' = [op |-> "tick"]
    /\ UNCHANGED <<users, mailVars, emailInHash, job, reviewVars>>

(***************************************************************************)
(* api/views.py: UsersViewSet (user management, lookup by username)        *)
(***************************************************************************)
\* create (POST /users/): UserSerializer, then User.objects.create -> save.
UsersCreate(data) ==
    LET role == IF data.role = Absent THEN USER ELSE data.role
        bio == IF data.bio = Absent THEN "" ELSE data.bio
    IN
    /\ data.username # Absent
    /\ data.email # Absent
    /\ IF UserSerializerErrors(0, data) = {}
       THEN /\ users' = Append(users, save(NewUser(data.username, data.email, role, bio)))
            /\ resp' = [op |-> "users_create", status |-> "OK"]
       ELSE /\ resp' = [op |-> "users_create", status |-> "ValidationError"]
            /\ UNCHANGED users
    /\ UNCHANGED <<mailVars, clockVars, job, reviewVars>>

\* partial_update (PATCH /users/{username}/): UserSerializer with partial=True;
\* the role default is not applied to a partial update.
UsersPartialUpdate(target, data) ==
    /\ IF ~UsernameExists(target)
       THEN /\ resp' = [op |-> "users_update", status |-> "NotFound"]
            /\ UNCHANGED <<users, changed>>
       ELSE LET pk == PkOf(target)
                row == save(Assign(users[pk], data, {"username", "email", "role", "bio"}))
            IN
            IF UserSerializerErrors(pk, data) = {}
            THEN /\ users' = [users EXCEPT ![pk] = row]
                 /\ changed' = Touch(pk, row)
                 /\ resp' = [op |-> "users_update", status |-> "OK"]
            ELSE /\ resp' = [op |-> "users_update", status |-> "ValidationError"]
                 /\ UNCHANGED <<users, changed>>
    /\ UNCHANGED <<outbox, accepted, clockVars, job, reviewVars>>

\* get_self_data, PATCH (/users/me/): PatchSelfDataSerializer with partial=True.
\* Meta.fields has no role: a role in the body is dropped.  The serializer
\* declares username without a UniqueValidator, so a username that passes
\* validate_username and is another user's reaches the unique constraint.
SelfFieldsWithRole == {"username", "email", "bio", "role"}
PatchSelfFields == {"username", "email", "bio"}

PatchMe(caller, data) ==
    LET row == save(Assign(users[caller], data, PatchSelfFields))
        req == [op |-> "patch_me", pk |-> caller, role |-> data.role,
                before |-> [role |-> users[caller].role,
                            is_staff |-> users[caller].is_staff]]
    IN
    /\ caller \in Pks
    /\ IF ExistingUserErrors(data) # {}
       THEN /\ resp' = req @@ [status |-> "ValidationError", wrote |-> FALSE]
            /\ UNCHANGED <<users, changed>>
       ELSE IF data.username # Absent /\ ByUsername(data.username) \ {caller} # {}
       THEN /\ resp' = req @@ [status |-> "IntegrityError", wrote |-> FALSE]
            /\ UNCHANGED <<users, changed>>
       ELSE /\ users' = [users EXCEPT ![caller] = row]
            /\ changed' = Touch(caller, row)
            /\ resp' = req @@ [status |-> "OK", wrote |-> row # users[caller]]
    /\ UNCHANGED <<outbox, accepted, clockVars, job, reviewVars>>

(***************************************************************************)
(* reviews/admin.py: UserAdmin.  The admin site's change form of a user,   *)
(* for a change of the password: the row is written by User.save.          *)
(***************************************************************************)
SetPassword(pk) ==
    LET row == save([users[pk] EXCEPT !.password = @ + 1])
    IN
    /\ pk \in Pks
    /\ users[pk].password < MaxPassword
    /\ users' = [users EXCEPT ![pk] = row]
    /\ changed' = Touch(pk, row)
    /\ resp' = [op |-> "set_password"]
    /\ UNCHANGED <<outbox, accepted, clockVars, job, reviewVars>>

(***************************************************************************)
(* reviews/management/commands/populatedb.py: the user table is loaded     *)
(* from users.csv with bulk_create, which does not call User.save.  The    *)
(* command refuses a table that already holds rows.                        *)
(***************************************************************************)
PopulateUsers(rows) ==
    /\ users = <<>>
    /\ \A i, j \in DOMAIN rows : rows[i].username = rows[j].username => i = j
    /\ users' = rows
    /\ resp' = [op |-> "populatedb"]
    /\ UNCHANGED <<mailVars, clockVars, job, reviewVars>>

(***************************************************************************)
(* api/urls.py: the router's routes of a viewset.  A method the route does *)
(* not map leaves view.action unset.                                       *)
(***************************************************************************)
ViewAction(route, method) ==
    CASE route = "list" /\ method = "GET" -> "list"
      [] route = "list" /\ method = "POST" -> "create"
      [] route = "detail" /\ method = "GET" -> "retrieve"
      [] route = "detail" /\ method = "PUT" -> "update"
      [] route = "detail" /\ method = "PATCH" -> "partial_update"
      [] route = "detail" /\ method = "DELETE" -> "destroy"
      [] OTHER -> "none"

is_authenticated(caller) == caller # Anonymous

(***************************************************************************)
(* api/permissions.py: ReviewViewSetPermission; CommentViewSetPermission   *)
(* inherits it unchanged.                                                  *)
(***************************************************************************)
\* "allow" and "deny" are the returned True and False (or None); the raise is
\* reached only when view.action is none of the listed actions.
has_permission(action, method, caller) ==
    IF action \in {"retrieve", "list", "partial_update", "destroy", "update"}
    THEN "allow"
    ELSE IF action = "create"
    THEN (IF is_authenticated(caller) THEN "allow" ELSE "deny")
    ELSE IF method = "PUT" THEN "MethodNotAllowed"
    ELSE "deny"

ObjectPermissionWithoutModerator(action, caller, author) ==
    \/ action = "retrieve"
    \/ /\ is_authenticated(caller)
       /\ (users[caller].is_staff \/ caller = author)
has_object_permission(action, caller, author) ==
    \/ action = "retrieve"
    \/ /\ is_authenticated(caller)
       /\ \/ users[caller].is_staff
          \/ is_moderator(users[caller])
          \/ caller = author

\* The response to a request a permission refuses: 401 without credentials,
\* 403 with them.
Denied(caller) ==
    IF is_authenticated(caller) THEN "PermissionDenied" ELSE "NotAuthenticated"

(***************************************************************************)
(* reviews/models.py: Title, Review, Comment                               *)
(***************************************************************************)
Titles == {1, 2}         \* the Title table; no handler modelled here writes it
TitleIds == {1, 2, 3}    \* the title_id a URL can carry

MIN_LIMIT_VALUE == 1
MAX_LIMIT_VALUE == 10

\* A fresh primary key.
NextPk(table) == CHOOSE i \in 1..(Cardinality(table) + 1) : \A r \in table : r.id # i

\* Review.Meta.constraints: unique_author_title.
NoUniqueConstraint(author, title) == TRUE
UniqueAuthorTitle(author, title) ==
    ~\E r \in reviews : r.author = author /\ r.title = title

\* title.reviews / review.comments
ReviewsOf(title) == {r \in reviews : r.title = title}
CommentsOf(review) == {c \in comments : c.review = review}

\* IntegerField with the Min/MaxValueValidator of ReviewSerializer.score.  The
\* field of a body is <<>> when left out, which a partial update may do, and
\* <<n>> otherwise.
ScoreValid(score, partial) ==
    \/ partial /\ score = <<>>
    \/ score # <<>> /\ MIN_LIMIT_VALUE <= score[1] /\ score[1] <= MAX_LIMIT_VALUE

PendingReviews == Cardinality({w \in Workers : job[w].op = "review"})

(***************************************************************************)
(* api/serializers.py: TitleSerializer.get_rating.  A rating is <<>> for   *)
(* None and <<n>> for n tenths otherwise.                                  *)
(***************************************************************************)
RECURSIVE SumScores(_)
SumScores(rs) ==
    IF rs = {} THEN 0
    ELSE LET r == CHOOSE x \in rs : TRUE IN r.score + SumScores(rs \ {r})

\* round(total / n, 1): the nearest tenth; a mean halfway between two tenths
\* is a multiple of a quarter for fewer than 20 reviews, which a float holds
\* exactly, and goes to the even tenth.
RoundTenths(total, n) ==
    LET q == (10 * total) \div n
        r == (10 * total) % n
    IN IF 2 * r < n THEN q
       ELSE IF 2 * r > n THEN q + 1
       ELSE IF q % 2 = 0 THEN q ELSE q + 1

RatingTruncated(title) ==
    LET rs == ReviewsOf(title)
    IN IF rs = {} THEN <<>>
       ELSE <<(10 * SumScores(rs)) \div Cardinality(rs)>>
\* Avg('score') is None without reviews; None and 0 are returned as they are.
get_rating(title) ==
    LET rs == ReviewsOf(title)
    IN IF rs = {} THEN <<>>
       ELSE IF SumScores(rs) = 0 THEN <<0>>
       ELSE <<RoundTenths(SumScores(rs), Cardinality(rs))>>

(***************************************************************************)
(* api/views.py: TitleViewSet.retrieve, open to every caller.              *)
(***************************************************************************)
TitleRetrieve(id) ==
    /\ resp' = IF id \in Titles
               THEN [op |-> "title", id |-> id, status |-> "OK",
                     rating |-> get_rating(id)]
               ELSE [op |-> "title", id |-> id, status |-> "NotFound",
                     rating |-> <<>>]
    /\ UNCHANGED <<users, mailVars, clockVars, job, reviewVars>>

(***************************************************************************)
(* api/views.py: ReviewViewSet                                             *)
(***************************************************************************)
Answer(op, action, method, caller, author, status, error, wrote) ==
    [op |-> op, action |-> action, method |-> method, caller |-> caller,
     author |-> author, status |-> status, error |-> error, wrote |-> wrote]

\* create (POST), up to is_valid(): the permission, the fields, then
\* ReviewSerializer.validate, which looks the title up and refuses a second
\* review of the caller for it.
ReviewCreateValidate(w, caller, title_id, score) ==
    LET dup == \E r \in ReviewsOf(title_id) : r.author = caller
        ans(status, error) ==
            Answer("review", "create", "POST", caller, caller, status, error, FALSE)
                @@ [dup |-> dup]
    IN
    /\ job[w] = Idle
    /\ caller \in Pks \cup {Anonymous}
    /\ Cardinality(reviews) + PendingReviews < MaxReviews
    /\ IF has_permission("create", "POST", caller) # "allow"
       THEN resp' = ans(Denied(caller), "") /\ UNCHANGED job
       ELSE IF ~ScoreValid(score, FALSE)
       THEN resp' = ans("ValidationError", "score") /\ UNCHANGED job
       ELSE IF title_id \notin Titles
       THEN resp' = ans("NotFound", "") /\ UNCHANGED job
       ELSE IF dup
       THEN resp' = ans("ValidationError", "one_review") /\ UNCHANGED job
       ELSE /\ job' = [job EXCEPT ![w] =
                          [op |-> "review", author |-> caller,
                           title |-> title_id, score |-> score[1]]]
            /\ resp' = ans("validated", "")
    /\ UNCHANGED <<users, mailVars, clockVars, reviewVars>>

\* perform_create: serializer.save(author=request.user, title=title), the
\* insert under the unique constraint.
ReviewCreateSave(w) ==
    LET req == job[w]
        dup == \E r \in ReviewsOf(req.title) : r.author = req.author
        ans(status, wrote) ==
            Answer("review", "create", "POST", req.author, req.author, status, "", wrote)
                @@ [dup |-> dup]
    IN
    /\ req.op = "review"
    /\ job' = [job EXCEPT ![w] = Idle]
    /\ IF UniqueAuthorTitle(req.author, req.title)
       THEN /\ reviews' = reviews \cup
                   {[id |-> NextPk(reviews), title |-> req.title,
                     author |-> req.author, score |-> req.score]}
            /\ resp' = ans("OK", TRUE)
       ELSE /\ resp' = ans("IntegrityError", FALSE)
            /\ UNCHANGED reviews
    /\ UNCHANGED <<users, mailVars, clockVars, comments>>

\* retrieve, update, partial_update, destroy: the permission, get_object (the
\* title, then the review among the title's, then the object permission),
\* then the handler.  Deleting a review deletes its comments.
ReviewDetail(caller, method, title_id, id, score) ==
    LET action == ViewAction("detail", method)
        perm == has_permission(action, method, caller)
        found == {r \in ReviewsOf(title_id) : r.id = id}
        obj == CHOOSE r \in found : TRUE
        ans(author, status, wrote) ==
            Answer("review", action, method, caller, author, status, "", wrote)
    IN
    /\ caller \in Pks \cup {Anonymous}
    /\ IF perm # "allow"
       THEN /\ resp' = ans(0, IF perm = "deny" THEN Denied(caller) ELSE perm, FALSE)
            /\ UNCHANGED reviewVars
       ELSE IF title_id \notin Titles \/ found = {}
       THEN /\ resp' = ans(0, "NotFound", FALSE)
            /\ UNCHANGED reviewVars
       ELSE IF ~has_object_permission(action, caller, obj.author)
       THEN /\ resp' = ans(obj.author, Denied(caller), FALSE)
            /\ UNCHANGED reviewVars
       ELSE IF action = "retrieve"
       THEN /\ resp' = ans(obj.author, "OK", FALSE)
            /\ UNCHANGED reviewVars
       ELSE IF action = "destroy"
       THEN /\ reviews' = reviews \ {obj}
            /\ comments' = comments \ CommentsOf(obj.id)
            /\ resp' = ans(obj.author, "OK", TRUE)
       ELSE IF ~ScoreValid(score, action = "partial_update")
       THEN /\ resp' = ans(obj.author, "ValidationError", FALSE)
            /\ UNCHANGED reviewVars
       ELSE /\ reviews' = (reviews \ {obj}) \cup
                   {[obj EXCEPT !.score = IF score = <<>> THEN @ ELSE score[1]]}
            /\ resp' = ans(obj.author, "OK", TRUE)
            /\ UNCHANGED comments
    /\ UNCHANGED <<users, mailVars, clockVars, job>>

\* A request on the collection route other than POST: list, or a method the
\* route does not map.
ReviewCollection(caller, method, title_id) ==
    LET action == ViewAction("list", method)
        perm == has_permission(action, method, caller)
        ans(status) == Answer("review", action, method, caller, 0, status, "", FALSE)
    IN
    /\ caller \in Pks \cup {Anonymous}
    /\ method # "POST"
    /\ resp' = IF perm # "allow"
               THEN ans(IF perm = "deny" THEN Denied(caller) ELSE perm)
               ELSE IF title_id \notin Titles THEN ans("NotFound")
               ELSE ans("OK")
    /\ UNCHANGED <<users, mailVars, clockVars, job, reviewVars>>

(***************************************************************************)
(* api/views.py: CommentViewSet.  get_queryset and perform_create look the *)
(* review up by review_id alone; title_id is not read.                     *)
(***************************************************************************)
ReviewIds == 1..MaxReviews

CommentCreate(caller, title_id, review_id, text) ==
    LET ans(status, wrote) ==
            Answer("comment", "create", "POST", caller, caller, status, "", wrote)
    IN
    /\ caller \in Pks \cup {Anonymous}
    /\ Cardinality(comments) < MaxComments
    /\ IF has_permission("create", "POST", caller) # "allow"
       THEN resp' = ans(Denied(caller), FALSE) /\ UNCHANGED comments
       ELSE IF ~\E r \in reviews : r.id = review_id
       THEN resp' = ans("NotFound", FALSE) /\ UNCHANGED comments
       ELSE /\ comments' = comments \cup
                   {[id |-> NextPk(comments), review |-> review_id,
                     author |-> caller, text |-> text]}
            /\ resp' = ans("OK", TRUE)
    /\ UNCHANGED <<users, mailVars, clockVars, job, reviews>>

CommentDetail(caller, method, title_id, review_id, id, text) ==
    LET action == ViewAction("detail", method)
        perm == has_permission(action, method, caller)
        found == {c \in CommentsOf(review_id) : c.id = id}
        obj == CHOOSE c \in found : TRUE
        ans(author, status, wrote) ==
            Answer("comment", action, method, caller, author, status, "", wrote)
    IN
    /\ caller \in Pks \cup {Anonymous}
    /\ IF perm # "allow"
       THEN /\ resp' = ans(0, IF perm = "deny" THEN Denied(caller) ELSE perm, FALSE)
            /\ UNCHANGED comments
       ELSE IF (~\E r \in reviews : r.id = review_id) \/ found = {}
       THEN /\ resp' = ans(0, "NotFound", FALSE)
            /\ UNCHANGED comments
       ELSE IF ~has_object_permission(action, caller, obj.author)
       THEN /\ resp' = ans(obj.author, Denied(caller), FALSE)
            /\ UNCHANGED comments
       ELSE IF action = "retrieve"
       THEN /\ resp' = ans(obj.author, "OK", FALSE)
            /\ UNCHANGED comments
       ELSE IF action = "destroy"
       THEN /\ comments' = comments \ {obj}
            /\ resp' = ans(obj.author, "OK", TRUE)
       ELSE /\ comments' = (comments \ {obj}) \cup {[obj EXCEPT !.text = text]}
            /\ resp' = ans(obj.author, "OK", TRUE)
    /\ UNCHANGED <<users, mailVars, clockVars, job, reviews>>

CommentCollection(caller, method, title_id, review_id) ==
    LET action == ViewAction("list", method)
        perm == has_permission(action, method, caller)
        ans(status) == Answer("comment", action, method, caller, 0, status, "", FALSE)
    IN
    /\ caller \in Pks \cup {Anonymous}
    /\ method # "POST"
    /\ resp' = IF perm # "allow"
               THEN ans(IF perm = "deny" THEN Denied(caller) ELSE perm)
               ELSE IF ~\E r \in reviews : r.id = review_id THEN ans("NotFound")
               ELSE ans("OK")
    /\ UNCHANGED <<users, mailVars, clockVars, job, reviewVars>>

(***************************************************************************)
(* reviews/validators.py and TitleCreateSerializer.validate_year: the two  *)
(* checks of a title's year, given the year of the clock.                  *)
(***************************************************************************)
\* if 0 > value > current_year: raise -- a chained comparison, both at once.
title_year_validator(value, current_year) ==
    IF 0 > value /\ value > current_year THEN "ValidationError" ELSE "OK"

\* if not 0 <= value <= timezone.now().year: raise
validate_year(value, current_year) ==
    IF ~(0 <= value /\ value <= current_year) THEN "ValidationError" ELSE "OK"

\* Both are applied to one value in one year.
YearValidate(value, current_year) ==
    /\ resp' = [op |-> "year", value |-> value, current_year |-> current_year,
                validator |-> title_year_validator(value, current_year),
                serializer |-> validate_year(value, current_year)]
    /\ UNCHANGED <<users, mailVars, clockVars, job, reviewVars>>

Init ==
    /\ users = <<>>
    /\ outbox = {}
    /\ accepted = {}
    /\ changed = {}
    /\ now = 0
    /\ emailInHash \in BOOLEAN
    /\ job = [w \in Workers |-> Idle]
    /\ reviews = {}
    /\ comments = {}
    /\ resp = [op |-> "none"]

\* Request bodies: every field is a value or Absent.
Body(username, email, role, bio) ==
    [username |-> username, email |-> email, role |-> role, bio |-> bio]

\* The accounts' state changes the token claims speak of: a change of role,
\* of email, of bio, by user management and by the user.
TokenUpdates ==
    {Body(Absent, Absent, MODERATOR, Absent), Body(Absent, Absent, Absent, "bio")}
    \cup {Body(Absent, e, Absent, Absent) : e \in Emails}

NextToken ==
    \/ \E e \in Emails : SignUpValidate(1, "alice", e)
    \/ SignUpSave(1)
    \/ \E n \in Usernames, c \in Codes : TokenRequest(n, c)
    \/ UsersCreate(Body("bob", "b@x.com", Absent, Absent))
    \/ \E d \in TokenUpdates : UsersPartialUpdate("alice", d)
    \/ \E d \in TokenUpdates : PatchMe(1, d)
    \/ SetPassword(1)
    \/ Tick

\* Signup, token requests and every change of an account, one account
\* holding a confirmation code.
SpecToken == Init /\ [][NextToken]_vars

(***************************************************************************)
(* The claims about the token endpoint, under SpecToken.                   *)
(***************************************************************************)
\* The mail of outbox that carried the code of the last token request.
MailOf(code) == {m \in outbox : m.code = code}
Fresh(code) == now - code.ts <= TimeoutTicks
\* The request names the user the code was made for, whose row has not
\* been changed since.
SameUserUnchanged(m) ==
    /\ m.code.uid \in Pks
    /\ users[m.code.uid].username = resp.username
    /\ m.code.uid \notin changed

C8_TokenOutcome ==
    resp.op = "token" =>
        /\ ~UsernameExists(resp.username) => resp.status = "NotFound"
        /\ (UsernameExists(resp.username)
              /\ ~check_token(PkOf(resp.username), resp.code))
           => resp.status = "ValidationError"
        /\ resp.status = "OK"
           <=> (UsernameExists(resp.username)
                  /\ check_token(PkOf(resp.username), resp.code))
        /\ resp.token = (IF resp.status = "OK" THEN PkOf(resp.username) ELSE 0)

\* A token request with a code that was mailed, for a user that exists and is
\* not the code's, is refused with ValidationError.
C8_Witness ==
    /\ resp.op = "token"
    /\ resp.status = "ValidationError"
    /\ resp.code # ForgedCode
    /\ UsernameExists(resp.username)
    /\ PkOf(resp.username) # resp.code.uid

\* C9 as stated: a code that was accepted before is accepted by a token
\* request for the same user whenever that user's row is unchanged.
C9_ReusableWhileUnchanged ==
    (resp.op = "token" /\ resp.reuse
       /\ \E m \in MailOf(resp.code) : SameUserUnchanged(m))
        => resp.status = "OK"

\* C9, amended: a token request writes neither the user table nor the mails,
\* and a code that was accepted before is accepted again for the same user
\* whenever that user's row is unchanged and the code has not expired.
C9_ReusableUntilExpiry ==
    [][resp'.op = "token" =>
          /\ users' = users
          /\ outbox' = outbox
          /\ (resp'.reuse
                /\ Fresh(resp'.code)
                /\ \E m \in MailOf(resp'.code) :
                      /\ m.code.uid \in Pks
                      /\ users[m.code.uid].username = resp'.username
                      /\ m.code.uid \notin changed)
             => resp'.status = "OK"]_vars

\* A code is accepted a second time.
C9_Witness ==
    resp.op = "token" /\ resp.reuse /\ resp.status = "OK"

(***************************************************************************)
(* The accounts: signup on concurrent workers, user management, the user's *)
(* own PATCH, and a user table loaded by populatedb.                       *)
(***************************************************************************)
CreateBodies ==
    {Body(n, e, r, Absent) : n \in Usernames, e \in Emails, r \in {Absent, ADMIN}}
UpdateBodies ==
    {Body(Absent, Absent, r, Absent) : r \in {USER, ADMIN}}
    \cup {Body(Absent, e, Absent, Absent) : e \in Emails}
    \cup {Body(n, Absent, Absent, Absent) : n \in Usernames \cup {ME}}
SelfBodies ==
    {Body(Absent, e, r, Absent) : e \in Emails, r \in {Absent, ADMIN}}
    \cup {Body(n, Absent, Absent, Absent) : n \in Usernames \cup {ME}}
\* users.csv: rows with a role column and no is_staff column.
CsvRows ==
    {<<NewUser("alice", "a@x.com", r, "")>> : r \in {USER, ADMIN}}

NextAccounts ==
    \/ \E n \in Usernames \cup {ME}, e \in Emails : SignUpValidate(1, n, e)
    \/ SignUpSave(1)
    \/ \E d \in CreateBodies : UsersCreate(d)
    \/ \E n \in Usernames, d \in UpdateBodies : UsersPartialUpdate(n, d)
    \/ \E p \in Pks, d \in SelfBodies : PatchMe(p, d)
    \/ \E rows \in CsvRows : PopulateUsers(rows)

\* The token generator's hash is of no account here: it is the current one.
InitAccounts == Init /\ emailInHash = TRUE

SpecAccounts == InitAccounts /\ [][NextAccounts]_vars

(***************************************************************************)
(* The claims about the accounts, under SpecAccounts.                      *)
(***************************************************************************)
\* C4: a signup for an existing username whose email is not that user's
\* email is answered with a validation error, and no code is mailed.
C4_MismatchedSignupRejected ==
    (resp.op = "signup_existing"
       /\ users[PkOf(resp.username)].email # resp.email)
        => (resp.status = "ValidationError" /\ ~resp.mailed)

\* C5: no two users have the same email.
C5_EmailUnique ==
    \A p, q \in Pks : users[p].email = users[q].email => p = q

\* C10 as stated: after a PATCH /users/me/ the caller's role and is_staff are
\* what they were before it.
C10_PatchMeKeepsRoleAndStaff ==
    resp.op = "patch_me" =>
        /\ users[resp.pk].role = resp.before.role
        /\ users[resp.pk].is_staff = resp.before.is_staff

\* C10, amended: after a PATCH /users/me/ the caller's role is what it was;
\* is_staff is what it was, except that the save of an admin's row sets it.
C10_PatchMeKeepsRole ==
    resp.op = "patch_me" =>
        /\ users[resp.pk].role = resp.before.role
        /\ users[resp.pk].is_staff
             = (resp.before.is_staff
                  \/ (resp.status = "OK" /\ resp.before.role = ADMIN))

\* A PATCH /users/me/ whose body carries role = admin is accepted and
\* changes the row of a caller whose role is user.
C10_Witness ==
    /\ resp.op = "patch_me"
    /\ resp.status = "OK"
    /\ resp.wrote
    /\ resp.role = ADMIN
    /\ users[resp.pk].role = USER

\* C15: a row written through User.save (by every handler here; populatedb
\* loads rows without it) has is_staff set when its role is admin, so every
\* user saved since it was loaded satisfies it.
C15_SavedAdminIsStaff ==
    [][resp'.op # "populatedb" =>
          \A p \in DOMAIN users' :
              (p \notin Pks \/ users'[p] # users[p])
                 => (users'[p].role = ADMIN => users'[p].is_staff)]_vars

\* A row loaded by populatedb with role admin and without is_staff has been
\* saved by its user's own PATCH, and is staff now.
C15_Witness ==
    /\ resp.op = "patch_me"
    /\ resp.status = "OK"
    /\ resp.before.role = ADMIN
    /\ ~resp.before.is_staff
    /\ users[resp.pk].role = ADMIN
    /\ users[resp.pk].is_staff

(***************************************************************************)
(* Usernames: signup on concurrent workers, for a new name and for "me",   *)
(* user management and the user's own PATCH carrying "me", and a user      *)
(* table loaded by populatedb that holds a row named "me".                 *)
(***************************************************************************)
SignupNames == {"alice", ME}
NameBodies ==
    {Body(n, e, Absent, Absent) : n \in SignupNames, e \in Emails}
RenameBodies ==
    {Body(n, Absent, Absent, Absent) : n \in SignupNames \cup {"bob"}}
MeRows == {<<NewUser(ME, "b@x.com", USER, "")>>}

NextSignup ==
    \/ \E w \in Workers, n \in SignupNames, e \in Emails : SignUpValidate(w, n, e)
    \/ \E w \in Workers : SignUpSave(w)
    \/ \E d \in NameBodies : UsersCreate(d)
    \/ \E n \in SignupNames, d \in RenameBodies : UsersPartialUpdate(n, d)
    \/ \E p \in Pks, d \in RenameBodies : PatchMe(p, d)
    \/ \E rows \in MeRows : PopulateUsers(rows)

SpecSignup == InitAccounts /\ [][NextSignup]_vars

(***************************************************************************)
(* The claims about usernames and signup, under SpecSignup.                *)
(***************************************************************************)
\* The step's request ends with a validation error and writes no user.
RejectedStep ==
    /\ resp'.status = "ValidationError"
    /\ users' = users
    /\ job' = job

\* C11: a signup (for a new or an existing username), a user-management
\* create or update of an existing user, and a PATCH /users/me/, whose body
\* carries the username "me", ends with a validation error; no user is
\* created with or renamed to "me".
C11_MeIsRejected ==
    [][/\ \A w \in Workers, e \in Emails :
             SignUpValidate(w, ME, e) => RejectedStep
       /\ \A d \in NameBodies :
             (d.username = ME /\ UsersCreate(d)) => RejectedStep
       /\ \A n \in SignupNames, d \in RenameBodies :
             (d.username = ME /\ UsernameExists(n) /\ UsersPartialUpdate(n, d))
                => RejectedStep
       /\ \A p \in Pks, d \in RenameBodies :
             (d.username = ME /\ PatchMe(p, d)) => RejectedStep
       /\ resp'.op # "populatedb"
             => {p \in DOMAIN users' : users'[p].username = ME}
                   \subseteq {p \in Pks : users[p].username = ME}]_vars

\* A user named "me" exists (loaded by populatedb) and a signup for that
\* existing username has been refused.
C11_Witness ==
    /\ resp.op = "signup_existing"
    /\ resp.username = ME
    /\ resp.status = "ValidationError"
    /\ UsernameExists(ME)
    /\ EmailExists(resp.email)

\* C12: no two users have the same username; a signup that saves a user for
\* a username no user has adds exactly one user, of role user, named and
\* addressed as requested, and answers without a token; a signup for an
\* existing username adds none.
C12_SignupAddsOneUser ==
    [][/\ \A p, q \in DOMAIN users' :
             users'[p].username = users'[q].username => p = q
       /\ (resp'.op = "signup" /\ resp'.status = "OK")
             => /\ ~UsernameExists(resp'.username)
                /\ Len(users') = Len(users) + 1
                /\ SubSeq(users', 1, Len(users)) = users
                /\ users'[Len(users')].username = resp'.username
                /\ users'[Len(users')].email = resp'.email
                /\ users'[Len(users')].role = USER
                /\ "token" \notin DOMAIN resp'
       /\ (resp'.op = "signup" /\ resp'.status # "OK") => users' = users
       /\ resp'.op = "signup_existing"
             => (users' = users /\ "token" \notin DOMAIN resp')]_vars

\* Two signups for one new username both passed validation; the first was
\* saved and the second has just been refused by the unique constraint.
C12_Witness ==
    /\ resp.op = "signup"
    /\ resp.status = "IntegrityError"
    /\ Cardinality(ByUsername(resp.username)) = 1

(***************************************************************************)
(* Review creation on concurrent workers, by two users.                    *)
(***************************************************************************)
ScoreInputs == {<<1>>, <<11>>}
Callers == Pks \cup {Anonymous}
EmailOf(n) == IF n = "alice" THEN "a@x.com" ELSE "b@x.com"

NextCreate ==
    \/ \E n \in Usernames : UsersCreate(Body(n, EmailOf(n), Absent, Absent))
    \/ \E w \in Workers, c \in Callers, t \in Titles, sc \in ScoreInputs :
          ReviewCreateValidate(w, c, t, sc)
    \/ \E w \in Workers : ReviewCreateSave(w)
    \/ \E c \in Callers, r \in reviews :
          ReviewDetail(c, "DELETE", r.title, r.id, <<>>)

SpecCreate == InitAccounts /\ [][NextCreate]_vars

(***************************************************************************)
(* The claims about review creation, under SpecCreate.                     *)
(***************************************************************************)
\* C1: at most one review exists for each author and title.
C1_OneReviewPerAuthorTitle ==
    \A r1, r2 \in reviews :
        (r1.author = r2.author /\ r1.title = r2.title) => r1 = r2

\* Two creations by one author for one title both passed validate; the
\* first was inserted and the second has just been refused by the constraint.
C1_Witness ==
    /\ resp.op = "review"
    /\ resp.action = "create"
    /\ resp.status = "IntegrityError"
    /\ \E r \in reviews : r.author = resp.author

\* C2: a creation by an author who already has a review for the title (the
\* body being valid otherwise) ends with the validation error of
\* ReviewSerializer.validate, and writes nothing.
C2_SecondReviewIsValidationError ==
    (resp.op = "review" /\ resp.action = "create" /\ resp.status # "validated"
       /\ resp.dup /\ resp.error # "score")
        => (resp.status = "ValidationError" /\ resp.error = "one_review"
              /\ ~resp.wrote)

(***************************************************************************)
(* Reviews and comments under every method, by an anonymous caller, by bob *)
(* of role user and by alice of any role, given at creation and changed to *)
(* user or moderator by user management.  The reviews and the comments are *)
(* bob's.                                                                  *)
(***************************************************************************)
\* The ids the requests carry: those of the rows there are, and one more.
KnownReviews == {r.id : r \in reviews} \cup {1}
KnownComments == {<<c.review, c.id>> : c \in comments} \cup {<<1, 1>>}

\* The permission does not read the title: one title is requested.
PermissionTitles == {1}
Methods == {"GET", "PUT", "PATCH", "DELETE"}
CollectionMethods == {"GET", "PUT"}
\* Method and score of a request on a review: a read or a delete has no body.
DetailRequests ==
    {<<"GET", <<>>>>, <<"DELETE", <<>>>>, <<"PUT", <<10>>>>, <<"PATCH", <<10>>>>,
     <<"PATCH", <<11>>>>}

NextPermissions ==
    \/ \E r \in {Absent, MODERATOR, ADMIN} :
          UsersCreate(Body("alice", EmailOf("alice"), r, Absent))
    \/ UsersCreate(Body("bob", EmailOf("bob"), Absent, Absent))
    \/ \E r \in {USER, MODERATOR} :
          UsersPartialUpdate("alice", Body(Absent, Absent, r, Absent))
    \/ \E c \in Callers \ ByUsername("alice"), t \in PermissionTitles :
          ReviewCreateValidate(1, c, t, <<1>>)
    \/ ReviewCreateSave(1)
    \/ \E c \in Callers, q \in DetailRequests, t \in PermissionTitles, i \in KnownReviews :
          ReviewDetail(c, q[1], t, i, q[2])
    \/ \E c \in Callers, m \in CollectionMethods, t \in PermissionTitles :
          ReviewCollection(c, m, t)
    \/ \E c \in Callers \ ByUsername("alice"), t \in PermissionTitles, i \in KnownReviews :
          CommentCreate(c, t, i, "text")
    \/ \E c \in Callers, m \in Methods, t \in PermissionTitles, k \in KnownComments :
          CommentDetail(c, m, t, k[1], k[2], "text")
    \/ \E c \in Callers, m \in CollectionMethods, t \in PermissionTitles :
          CommentCollection(c, m, t, 1)

SpecPermissions == InitAccounts /\ [][NextPermissions]_vars

(***************************************************************************)
(* The claims about the permission class, under SpecPermissions.           *)
(***************************************************************************)
\* C6: a PUT on a review or a comment that exists is answered
\* MethodNotAllowed, whoever the caller is, and writes nothing.
C6_PutIsMethodNotAllowed ==
    (/\ resp.op \in {"review", "comment"}
     /\ resp.method = "PUT"
     /\ resp.status # "NotFound")
        => (resp.status = "MethodNotAllowed" /\ ~resp.wrote)

\* The last request reached the object permission of a review or comment.
OnObject ==
    /\ resp.op \in {"review", "comment"}
    /\ resp.action \in {"retrieve", "update", "partial_update", "destroy"}
    /\ resp.status # "NotFound"
Mutation == resp.action \in {"update", "partial_update", "destroy"}
Permitted == resp.status \notin {"NotAuthenticated", "PermissionDenied"}
CallerMayMutate ==
    /\ resp.caller # Anonymous
    /\ \/ users[resp.caller].is_staff
       \/ users[resp.caller].role = MODERATOR
       \/ resp.caller = resp.author
CallerIsPlainUser ==
    /\ resp.caller # Anonymous
    /\ users[resp.caller].role = USER
    /\ resp.caller # resp.author

\* C7 as stated: retrieve is always permitted; a mutation is permitted iff
\* the caller is authenticated and staff, moderator or the author; and an
\* anonymous caller or a non-author of role user never writes the object.
C7_PermissionAsStated ==
    OnObject =>
        /\ resp.action = "retrieve" => resp.status = "OK"
        /\ Mutation => (Permitted <=> CallerMayMutate)
        /\ (Mutation /\ (resp.caller = Anonymous \/ CallerIsPlainUser))
           => ~resp.wrote

\* C7, amended: the same, the last part for a non-author of role user that
\* is not staff.
C7_PermissionByStaffModeratorAuthor ==
    OnObject =>
        /\ resp.action = "retrieve" => resp.status = "OK"
        /\ Mutation => (Permitted <=> CallerMayMutate)
        /\ (Mutation /\ ~Permitted) => ~resp.wrote
        /\ (Mutation
              /\ (resp.caller = Anonymous
                    \/ (CallerIsPlainUser /\ ~users[resp.caller].is_staff)))
           => ~resp.wrote

\* A moderator that is neither staff nor the author has changed or deleted
\* another user's comment.
C7_Witness ==
    /\ OnObject
    /\ resp.op = "comment"
    /\ Mutation
    /\ resp.wrote
    /\ resp.caller # Anonymous
    /\ users[resp.caller].role = MODERATOR
    /\ ~users[resp.caller].is_staff
    /\ resp.caller # resp.author

\* C17: no step clears is_staff of a user, whatever it does to the role; and
\* a caller that is staff is never refused the update, partial_update or
\* destroy of a review or comment, also of one it did not write.
C17_StaffIsNeverCleared ==
    [][/\ \A p \in Pks : users[p].is_staff => users'[p].is_staff
       /\ (/\ resp'.op \in {"review", "comment"}
           /\ resp'.action \in {"update", "partial_update", "destroy"}
           /\ resp'.status # "NotFound"
           /\ resp'.caller # Anonymous
           /\ users[resp'.caller].is_staff)
          => resp'.status \notin {"NotAuthenticated", "PermissionDenied"}]_vars

\* A user saved as admin and changed to role user since, still staff, has
\* changed or deleted a review or comment of another user.
C17_Witness ==
    /\ OnObject
    /\ Mutation
    /\ resp.wrote
    /\ resp.caller # Anonymous
    /\ resp.caller # resp.author
    /\ users[resp.caller].role = USER
    /\ users[resp.caller].is_staff

(***************************************************************************)
(* Reviews and comments under the path of a title that exists and of one   *)
(* that does not, by alice and by an anonymous caller.                     *)
(***************************************************************************)
ParentMethods == {"GET", "PATCH", "DELETE"}

NextParents ==
    \/ UsersCreate(Body("alice", EmailOf("alice"), Absent, Absent))
    \/ \E c \in Callers, t \in TitleIds : ReviewCreateValidate(1, c, t, <<1>>)
    \/ ReviewCreateSave(1)
    \/ \E c \in Callers, m \in ParentMethods, t \in TitleIds, i \in ReviewIds :
          ReviewDetail(c, m, t, i, <<>>)
    \/ \E c \in Callers, t \in TitleIds : ReviewCollection(c, "GET", t)
    \/ \E c \in Callers, t \in TitleIds, i \in ReviewIds :
          CommentCreate(c, t, i, "text")
    \/ \E c \in Callers, m \in ParentMethods, t \in TitleIds, i \in ReviewIds :
          CommentDetail(c, m, t, i, 1, "text")
    \/ \E c \in Callers, t \in TitleIds, i \in ReviewIds :
          CommentCollection(c, "GET", t, i)

SpecParents == InitAccounts /\ [][NextParents]_vars

(***************************************************************************)
(* The claim about the parents of the path, under SpecParents.             *)
(***************************************************************************)
\* The step's request ends NotFound and writes neither table.
NotFoundStep ==
    /\ resp'.status = "NotFound"
    /\ reviews' = reviews
    /\ comments' = comments

\* C13: a request of an authenticated caller on the reviews of a title that
\* does not exist, on the comments of a review under such a title, or on the
\* comments of a review that does not exist, ends NotFound and writes nothing.
C13_MissingParentIsNotFound ==
    [][\A c \in Pks, t \in TitleIds, i \in ReviewIds :
          /\ t \notin Titles =>
                /\ ReviewCreateValidate(1, c, t, <<1>>) => NotFoundStep
                /\ ReviewCollection(c, "GET", t) => NotFoundStep
                /\ \A m \in ParentMethods :
                      ReviewDetail(c, m, t, i, <<>>) => NotFoundStep
          /\ (t \notin Titles \/ ~\E r \in reviews : r.id = i) =>
                /\ CommentCreate(c, t, i, "text") => NotFoundStep
                /\ CommentCollection(c, "GET", t, i) => NotFoundStep
                /\ \A m \in ParentMethods :
                      CommentDetail(c, m, t, i, 1, "text") => NotFoundStep]_vars

(***************************************************************************)
(* The rating of a title over the creations, updates and deletions of the  *)
(* reviews of three users, loaded by populatedb, on title 1, and of the    *)
(* review of one of them on title 2.                                       *)
(***************************************************************************)
ReviewerRows ==
    {<<NewUser("alice", "a@x.com", USER, ""), NewUser("bob", "b@x.com", USER, ""),
       NewUser("carol", "c@x.com", USER, "")>>}
RatingScores == {<<1>>, <<2>>}

NextRating ==
    \/ \E rows \in ReviewerRows : PopulateUsers(rows)
    \/ \E c \in Pks, sc \in RatingScores : ReviewCreateValidate(1, c, 1, sc)
    \/ \E c \in ByUsername("alice") : ReviewCreateValidate(1, c, 2, <<2>>)
    \/ ReviewCreateSave(1)
    \/ \E r \in reviews, m \in {"PATCH", "DELETE"} :
          ReviewDetail(r.author, m, r.title, r.id, <<10>>)
    \/ \E t \in TitleIds : TitleRetrieve(t)

SpecRating == InitAccounts /\ [][NextRating]_vars

(***************************************************************************)
(* The claim about the rating, under SpecRating.                           *)
(***************************************************************************)
\* The reviews of the title last retrieved, their number and their scores' sum.
Rated == {r \in reviews : r.title = resp.id}
RatedSum == SumScores(Rated)
RatedCount == Cardinality(Rated)

\* C14: the rating of a title without reviews is None; otherwise it is a
\* number of tenths no further than half a tenth from the mean of the scores
\* of the title's reviews, as they are when the title is retrieved.
C14_RatingIsRoundedMean ==
    (resp.op = "title" /\ resp.status = "OK") =>
        /\ Rated = {} <=> resp.rating = <<>>
        /\ Rated # {} =>
              LET off == 10 * RatedSum - resp.rating[1] * RatedCount
              IN 2 * off <= RatedCount /\ -2 * off <= RatedCount

\* A title with three reviews, one of them updated, whose mean is not a
\* number of tenths, has been retrieved.
C14_Witness ==
    /\ resp.op = "title"
    /\ resp.status = "OK"
    /\ RatedCount = 3
    /\ (10 * RatedSum) % RatedCount # 0
    /\ resp.rating # <<>>
    /\ \E r \in Rated : r.score = 10

(***************************************************************************)
(* The checks of a year, over the years around 0 and around the clock's.   *)
(***************************************************************************)
CurrentYears == 1..MaxYear
Years == (0 - 2)..(MaxYear + 2)

NextYear == \E v \in Years, y \in CurrentYears : YearValidate(v, y)

SpecYear == InitAccounts /\ [][NextYear]_vars

\* C16: title_year_validator raises for a year below 0 and for a year above
\* the current year, accepts every year from 0 to the current year, and
\* raises exactly when TitleCreateSerializer.validate_year does.
C16_ValidatorRejectsOutOfRange ==
    resp.op = "year" =>
        /\ resp.validator = "ValidationError"
              <=> (resp.value < 0 \/ resp.value > resp.current_year)
        /\ resp.validator = resp.serializer
====
